---- MODULE Spec2Model ----
(***************************************************************************)
(* A model of composer.loggers.file_logger.FileLogger: the level filter,   *)
(* the line formatter, the pending queue, the lazily opened file and the   *)
(* flush/publish cycle, driven by the lifecycle hooks of the trainer.      *)
(*                                                                         *)
(* Strings are sequences of tokens; a token is either one line terminator  *)
(* ("\n", "\r") or a piece of text without terminators.  An Optional value *)
(* is None (the empty tuple) or the one-element tuple <<v>>.               *)
(***************************************************************************)
EXTENDS Integers, Sequences, FiniteSets, TLC

VARIABLES
    filename_format,       \* self.filename_format
    artifact_name_format,  \* self.artifact_name_format
    log_level,             \* self.log_level
    log_interval,          \* self.log_interval
    flush_interval,        \* self.flush_interval
    config,                \* self.config (Optional, already yaml-dumped)
    capture_stdout,        \* the capture_stdout argument of __init__
    capture_stderr,        \* the capture_stderr argument of __init__
    is_batch_interval,     \* self.is_batch_interval
    is_epoch_interval,     \* self.is_epoch_interval
    file,                  \* self.file: None or <<path of the open handle>>
    _run_name,             \* self._run_name: None or <<run name>>
    _queue,                \* self._queue: sequence of formatted strings
    stdout_write,          \* sys.stdout.write: "original", "new_write", or the
                           \* wrapper of another component around either:
                           \* "other" and "other+new_write"
    stderr_write,          \* sys.stderr.write, likewise
    disk,                  \* the file system: path -> content written so far
    openHandles,           \* paths of the handles opened and not yet closed
    issued,                \* history: the write() calls: their arguments, their
                           \* formatted string and whether they queued it
    opens,                 \* history: number of successful open() calls
    closes,                \* history: number of completed file.close() calls
    lastOp,                \* history: the latest call and its outcome
    threads                \* the calls in progress when threads share the
                           \* logger: per thread, the statement it is at, its
                           \* local variables and the calls that had returned
                           \* when its own call began

cfgVars == <<filename_format, artifact_name_format, log_level, log_interval,
             flush_interval, config, capture_stdout, capture_stderr>>

vars == <<filename_format, artifact_name_format, log_level, log_interval,
          flush_interval, config, capture_stdout, capture_stderr,
          is_batch_interval, is_epoch_interval, file,
          _run_name, _queue, stdout_write, stderr_write, disk, openHandles,
          issued, opens, closes, lastOp, threads>>

----
\* Bounds of the model.

\* Largest batch / epoch counter the trainer passes to a hook.
MaxCounter == 3

\* Largest log_interval / flush_interval chosen at construction.
MaxInterval == 2

\* Largest number of write() calls in one behaviour of Spec.
MaxWrites == 2

\* Largest number of write() calls in one behaviour of the specifications
\* that explore the filter and the names rather than the file content.
FewWrites == 1

\* Largest number of tokens of a text given to write() in SpecFormat.
MaxTextLen == 3

\* Number of threads that call write() while the lifecycle thread calls
\* init() and flushes.
MaxWriters == 2

----
\* Values.

None == <<>>

Some(v) == <<v>>

\* LogLevel is an IntEnum ordered FIT < EPOCH < BATCH.
LogLevel == [FIT |-> 1, EPOCH |-> 2, BATCH |-> 3]

ConfiguredLevels == {"FIT", "EPOCH", "BATCH"}

\* "OTHER" stands for a level that is none of the three members.
CallLevels == ConfiguredLevels \cup {"OTHER"}

\* The defaults of FileLogger.__init__.
default_filename_format == <<"{run_name}", "/", "logs-rank", "{rank}", ".txt">>

default_log_level == "EPOCH"

default_log_interval == 1

default_flush_interval == 100

os_linesep == <<"\n">>

os_path_sep == "/"

\* dist.get_global_rank() of this process.
get_global_rank == 0

----
\* Strings.

RECURSIVE join(_)
\* ''.join(parts)
join(parts) ==
    IF parts = <<>> THEN <<>> ELSE Head(parts) \o join(Tail(parts))

RECURSIVE splitlines_from(_, _, _, _)
splitlines_from(s, i, cur, acc) ==
    IF i > Len(s)
    THEN IF cur = <<>> THEN acc ELSE Append(acc, cur)
    ELSE IF s[i] = "\r" /\ i < Len(s) /\ s[i + 1] = "\n"
    THEN splitlines_from(s, i + 2, <<>>, Append(acc, cur \o <<"\r", "\n">>))
    ELSE IF s[i] \in {"\n", "\r"}
    THEN splitlines_from(s, i + 1, <<>>, Append(acc, Append(cur, s[i])))
    ELSE splitlines_from(s, i + 1, Append(cur, s[i]), acc)

\* s.splitlines(True): the lines of s, each keeping its terminator.
splitlines(s) == splitlines_from(s, 1, <<>>, <<>>)

\* The formatting loop of write(): every line but the bare os.linesep
\* gets the prefix.
formatted_s(prefix, s) ==
    LET lines == splitlines(s)
        formatted_lines ==
            [k \in 1..Len(lines) |->
                IF lines[k] = os_linesep THEN lines[k] ELSE prefix \o lines[k]]
    IN join(formatted_lines)

RECURSIVE str_format(_, _)
\* fmt.format(rank=..., run_name=...)
str_format(fmt, run_name) ==
    IF fmt = <<>> THEN <<>>
    ELSE LET rest == str_format(Tail(fmt), run_name)
         IN IF Head(fmt) = "{run_name}" THEN run_name \o rest
            ELSE IF Head(fmt) = "{rank}" THEN <<ToString(get_global_rank)>> \o rest
            ELSE <<Head(fmt)>> \o rest

\* fmt.replace(os.path.sep, '/')
replace_sep(fmt) ==
    [k \in 1..Len(fmt) |-> IF fmt[k] = os_path_sep THEN "/" ELSE fmt[k]]

RECURSIVE lstrip(_, _)
\* name.lstrip(c)
lstrip(name, c) ==
    IF name # <<>> /\ Head(name) = c THEN lstrip(Tail(name), c) ELSE name

----
\* Properties of the logger.

\* FileLogger.filename for a given value of self._run_name.
filename(run_name) ==
    IF run_name = None
    THEN [err |-> "RuntimeError", val |-> <<>>]
    ELSE [err |-> "none", val |-> str_format(filename_format, run_name[1])]

\* FileLogger.artifact_name for a given value of self._run_name: the name is
\* resolved from filename_format, and the result of lstrip is dropped.
artifact_name(run_name) ==
    IF run_name = None
    THEN [err |-> "RuntimeError", val |-> <<>>]
    ELSE LET name == str_format(filename_format, run_name[1])
             stripped == lstrip(name, "/")
         IN [err |-> "none", val |-> name]

\* _will_log with "<=" and ">=" where the code compares with "<" and ">".
_will_log_le(level) ==
    IF level = "FIT" THEN [err |-> "none", ret |-> TRUE]
    ELSE IF level = "EPOCH"
    THEN IF LogLevel[log_level] <= LogLevel.EPOCH THEN [err |-> "none", ret |-> FALSE]
         ELSE [err |-> "none", ret |-> TRUE]
    ELSE IF level = "BATCH"
    THEN IF LogLevel[log_level] <= LogLevel.BATCH THEN [err |-> "none", ret |-> FALSE]
         ELSE [err |-> "none", ret |-> TRUE]
    ELSE [err |-> "ValueError", ret |-> FALSE]

\* FileLogger._will_log in the current state.
_will_log(level) ==
    IF level = "FIT" THEN [err |-> "none", ret |-> TRUE]
    ELSE IF level = "EPOCH"
    THEN IF LogLevel[log_level] < LogLevel.EPOCH THEN [err |-> "none", ret |-> FALSE]
         ELSE IF LogLevel[log_level] > LogLevel.EPOCH THEN [err |-> "none", ret |-> TRUE]
         ELSE [err |-> "none", ret |-> is_epoch_interval]
    ELSE IF level = "BATCH"
    THEN IF LogLevel[log_level] < LogLevel.BATCH THEN [err |-> "none", ret |-> FALSE]
         ELSE IF LogLevel[log_level] > LogLevel.BATCH THEN [err |-> "none", ret |-> TRUE]
         ELSE [err |-> "none", ret |-> is_batch_interval]
    ELSE [err |-> "ValueError", ret |-> FALSE]

----
\* The write path.  Each operator maps the fields it reads to the fields it
\* leaves behind: f is self.file, q is self._queue, d is the file system.

RECURSIVE reversed(_)
reversed(q) == IF q = <<>> THEN <<>> ELSE Append(reversed(Tail(q)), Head(q))

\* _flush_queue draining a stack: the newest entry is printed first.
_flush_queue_lifo(f, q, d) ==
    [q |-> <<>>, d |-> [d EXCEPT ![f[1]] = @ \o join(reversed(q))]]

\* _flush_queue reading the queue without removing its entries.
_flush_queue_keep(f, q, d) ==
    [q |-> q, d |-> [d EXCEPT ![f[1]] = @ \o join(q)]]

\* FileLogger._flush_queue: every queued string is printed to the file.
_flush_queue(f, q, d) ==
    [q |-> <<>>, d |-> [d EXCEPT ![f[1]] = @ \o join(q)]]

\* FileLogger.write
write(f, q, d, prefix, s) ==
    IF f = None
    THEN [q |-> Append(q, formatted_s(prefix, s)), d |-> d]
    ELSE LET fl == _flush_queue(f, q, d)
         IN [q |-> fl.q,
             d |-> [fl.d EXCEPT ![f[1]] = @ \o formatted_s(prefix, s)]]

\* _flush_file without its assertion: _flush_queue takes the entries off the
\* queue (print(s, file=None) sends them to sys.stdout) and self.file.flush()
\* raises on None.
_flush_file_noassert(f, q, d, run_name, publishFails) ==
    IF f = None
    THEN [err |-> "AttributeError", q |-> <<>>, d |-> d, pubs |-> <<>>]
    ELSE LET fl == _flush_queue(f, q, d)
             name == artifact_name(run_name)
         IN [err |-> IF publishFails THEN "PublishError" ELSE "none",
             q |-> fl.q, d |-> fl.d,
             pubs |-> <<[artifact |-> name.val, path |-> f[1]]>>]

\* FileLogger._flush_file for the given value of self._run_name; publishFails
\* says whether logger.file_artifact raises.  pubs are the calls made to
\* logger.file_artifact.
_flush_file(f, q, d, run_name, publishFails) ==
    IF f = None
    THEN [err |-> "AssertionError", q |-> q, d |-> d, pubs |-> <<>>]
    ELSE LET fl == _flush_queue(f, q, d)
             name == artifact_name(run_name)
         IN IF name.err # "none"
            THEN [err |-> name.err, q |-> fl.q, d |-> fl.d, pubs |-> <<>>]
            ELSE [err |-> IF publishFails THEN "PublishError" ELSE "none",
                  q |-> fl.q, d |-> fl.d,
                  pubs |-> <<[artifact |-> name.val, path |-> f[1]]>>]

----
\* The state after FileLogger.__init__.

\* The record kept of a call: its name, the level and counter it was given
\* (when it takes one), the error it raised and the file_artifact calls made.
Op(op, level, ctr, err, pubs) ==
    [op |-> op, level |-> level, ctr |-> ctr, err |-> err, pubs |-> pubs]

\* Interval flags that start on.
interval_flag_on == TRUE

\* The value __init__ gives is_batch_interval and is_epoch_interval.
interval_flag_at_init == FALSE

\* The record kept of a write() call: its arguments, the string it formatted
\* and whether it found no file and queued the string.
Issue(prefix, s, queued) ==
    [prefix |-> prefix, text |-> s, s |-> formatted_s(prefix, s),
     queued |-> queued]

\* The threads of the program: the writers and the thread of the trainer,
\* which calls the lifecycle hooks.
Writers == 1..MaxWriters

LifecycleThread == 0

Threads == Writers \cup {LifecycleThread}

\* A thread that is in no call of the logger: pc is the statement it is at,
\* caller the method that called _flush_queue, s the local formatted_s of
\* write(), popped the local s of _flush_queue, before the writers whose
\* call had returned when the thread's own call began.
idle == [pc |-> "idle", caller |-> "-", s |-> <<>>, popped |-> <<>>, before |-> {}]

\* FileLogger.__init__ with its arguments drawn from the given sets: the
\* filename formats, the Optional artifact name formats, the levels, the log
\* and flush intervals, the Optional configs and the pairs
\* <<capture_stdout, capture_stderr>>.
__init__(formats, artifact_formats, levels, log_ivals, flush_ivals, configs, captures) ==
    /\ filename_format \in formats
    /\ \E anf \in artifact_formats :
          artifact_name_format =
              IF anf = None THEN replace_sep(filename_format) ELSE anf[1]
    /\ log_level \in levels
    /\ log_interval \in log_ivals
    /\ flush_interval \in flush_ivals
    /\ config \in configs
    /\ is_batch_interval = interval_flag_at_init
    /\ is_epoch_interval = interval_flag_at_init
    /\ file = None
    /\ _run_name = None
    /\ _queue = <<>>
    /\ \E capture \in captures :
          /\ capture_stdout = capture[1]
          /\ capture_stderr = capture[2]
    /\ stdout_write = IF capture_stdout THEN "new_write" ELSE "original"
    /\ stderr_write = IF capture_stderr THEN "new_write" ELSE "original"
    /\ disk = <<>>
    /\ openHandles = {}
    /\ issued = <<>>
    /\ opens = 0
    /\ closes = 0
    /\ lastOp = Op("__init__", "-", -1, "none", <<>>)
    /\ threads = [t \in Threads |-> idle]

----
\* The lifecycle hooks.

\* open(path, "x+"): the file system with the new, empty file.
open_x(d, path) ==
    [p \in DOMAIN d \cup {path} |-> IF p = path THEN <<>> ELSE d[p]]

\* The text init() writes for the config blob.
config_data == <<"------------------------------", "\n">> \o config[1]
                   \o <<"\n", "------------------------------", "\n">>

\* init() writing the config block before it drains the queue.
init_writes_config_first(f, q, d) ==
    _flush_queue(f, q,
                 IF config # None
                 THEN [d EXCEPT ![f[1]] =
                          @ \o formatted_s(<<"[config]: ">>, config_data)]
                 ELSE d)

\* The writes of init() once the file is open: the drain of the queue and
\* then, when there is a config blob, the config block.
init_writes(f, q, d) ==
    LET fl == _flush_queue(f, q, d)
    IN IF config # None
       THEN write(f, fl.q, fl.d, <<"[config]: ">>, config_data)
       ELSE fl

\* init() without its check.
already_initialized_never(f) == FALSE

\* The check of init() that the logger is not initialized yet.
already_initialized(f) == f # None

\* FileLogger.init with logger.run_name = run_name
init(run_name) ==
    /\ _run_name' = Some(run_name)
    /\ IF already_initialized(file)
       THEN /\ lastOp' = Op("init", "-", -1, "RuntimeError", <<>>)
            /\ UNCHANGED <<file, _queue, disk, openHandles, issued, opens>>
       ELSE LET path == filename(Some(run_name)).val
            IN IF path \in DOMAIN disk
               THEN /\ lastOp' = Op("init", "-", -1, "FileExistsError", <<>>)
                    /\ UNCHANGED <<file, _queue, disk, openHandles, issued, opens>>
               ELSE LET f == Some(path)
                        w == init_writes(f, _queue, open_x(disk, path))
                    IN /\ file' = f
                       /\ openHandles' = openHandles \cup {path}
                       /\ opens' = opens + 1
                       /\ _queue' = w.q
                       /\ disk' = w.d
                       /\ issued' = IF config # None
                                    THEN Append(issued,
                                           Issue(<<"[config]: ">>, config_data,
                                                 FALSE))
                                    ELSE issued
                       /\ lastOp' = Op("init", "-", -1, "none", <<>>)
    /\ UNCHANGED <<cfgVars, threads, is_batch_interval, is_epoch_interval, stdout_write,
                   stderr_write, closes>>

\* The flag batch_start computes.
batch_interval(batch) == (batch + 1) % log_interval = 0

\* The flag of epoch_start without the "+ 1".
epoch_interval_no_plus1(epoch) == epoch % log_interval = 0

\* The flag epoch_start computes.
epoch_interval(epoch) == (epoch + 1) % log_interval = 0

\* FileLogger.batch_start with state.timer.batch = batch
batch_start(batch) ==
    /\ is_batch_interval' = batch_interval(batch)
    /\ lastOp' = Op("batch_start", "-", batch, "none", <<>>)
    /\ UNCHANGED <<cfgVars, threads, is_epoch_interval, file, _run_name, _queue,
                   stdout_write, stderr_write, disk, openHandles, issued, opens,
                   closes>>

\* The part shared by the hooks that end in self._flush_file(logger).
flush_hook(op, ctr, publishFails) ==
    LET r == _flush_file(file, _queue, disk, _run_name, publishFails)
    IN /\ _queue' = r.q
       /\ disk' = r.d
       /\ lastOp' = Op(op, "-", ctr, r.err, r.pubs)

\* FileLogger.epoch_start with state.timer.epoch = epoch
epoch_start(epoch, publishFails) ==
    /\ is_epoch_interval' = epoch_interval(epoch)
    /\ flush_hook("epoch_start", epoch, publishFails)
    /\ UNCHANGED <<cfgVars, threads, is_batch_interval, file, _run_name, stdout_write,
                   stderr_write, openHandles, issued, opens, closes>>

\* The condition under which batch_end flushes.
batch_end_flushes(batch) ==
    LogLevel[log_level] = LogLevel.BATCH /\ batch % flush_interval = 0

\* The condition of epoch_end with the "(counter + 1)" of the interval flags.
epoch_end_flushes_plus1(epoch) ==
    \/ LogLevel[log_level] > LogLevel.EPOCH
    \/ LogLevel[log_level] = LogLevel.EPOCH /\ (epoch + 1) % flush_interval = 0

\* The condition under which epoch_end flushes.
epoch_end_flushes(epoch) ==
    \/ LogLevel[log_level] > LogLevel.EPOCH
    \/ LogLevel[log_level] = LogLevel.EPOCH /\ epoch % flush_interval = 0

\* FileLogger.batch_end with state.timer.batch = batch
batch_end(batch, publishFails) ==
    /\ IF file = None
       THEN /\ lastOp' = Op("batch_end", "-", batch, "AssertionError", <<>>)
            /\ UNCHANGED <<_queue, disk>>
       ELSE IF batch_end_flushes(batch)
       THEN flush_hook("batch_end", batch, publishFails)
       ELSE /\ lastOp' = Op("batch_end", "-", batch, "none", <<>>)
            /\ UNCHANGED <<_queue, disk>>
    /\ UNCHANGED <<cfgVars, threads, is_batch_interval, is_epoch_interval, file,
                   _run_name, stdout_write, stderr_write, openHandles, issued,
                   opens, closes>>

\* FileLogger.eval_start
eval_start(publishFails) ==
    /\ flush_hook("eval_start", -1, publishFails)
    /\ UNCHANGED <<cfgVars, threads, is_batch_interval, is_epoch_interval, file,
                   _run_name, stdout_write, stderr_write, openHandles, issued,
                   opens, closes>>

\* FileLogger.epoch_end with state.timer.epoch = epoch
epoch_end(epoch, publishFails) ==
    /\ IF epoch_end_flushes(epoch)
       THEN flush_hook("epoch_end", epoch, publishFails)
       ELSE /\ lastOp' = Op("epoch_end", "-", epoch, "none", <<>>)
            /\ UNCHANGED <<_queue, disk>>
    /\ UNCHANGED <<cfgVars, threads, is_batch_interval, is_epoch_interval, file,
                   _run_name, stdout_write, stderr_write, openHandles, issued,
                   opens, closes>>

\* The body of close() under "if self.file is not None".
close_file(publishFails) ==
    LET r == _flush_file(file, _queue, disk, _run_name, publishFails)
    IN /\ stdout_write' = "original"
       /\ stderr_write' = "original"
       /\ _queue' = r.q
       /\ disk' = r.d
       /\ lastOp' = Op("close", "-", -1, r.err, r.pubs)
       /\ IF r.err = "none"
          THEN /\ openHandles' = openHandles \ {file[1]}
               /\ file' = None
               /\ _run_name' = None
               /\ closes' = closes + 1
          ELSE UNCHANGED <<openHandles, file, _run_name, closes>>

\* close() without "if self.file is not None".
close_unguarded(publishFails) ==
    /\ IF file # None
       THEN close_file(publishFails)
       ELSE /\ stdout_write' = "original"
            /\ stderr_write' = "original"
            /\ lastOp' = Op("close", "-", -1, "AssertionError", <<>>)
            /\ UNCHANGED <<_queue, disk, openHandles, file, _run_name, closes>>
    /\ UNCHANGED <<cfgVars, threads, is_batch_interval, is_epoch_interval, issued, opens>>

\* FileLogger.close
close(publishFails) ==
    /\ IF file # None
       THEN close_file(publishFails)
       ELSE /\ lastOp' = Op("close", "-", -1, "none", <<>>)
            /\ UNCHANGED <<stdout_write, stderr_write, _queue, disk, openHandles,
                           file, _run_name, closes>>
    /\ UNCHANGED <<cfgVars, threads, is_batch_interval, is_epoch_interval, issued, opens>>

----
\* The calls that write.

\* self.write(prefix, s) as a whole call, recorded as op.
write_call(op, level, ctr, prefix, s) ==
    LET w == write(file, _queue, disk, prefix, s)
    IN /\ _queue' = w.q
       /\ disk' = w.d
       /\ issued' = Append(issued, Issue(prefix, s, file = None))
       /\ lastOp' = Op(op, level, ctr, "none", <<>>)

\* FileLogger.log_data with state.timer.batch = batch and
\* format_log_data_value(data) = data_str
log_data(level, batch, data_str) ==
    /\ LET will == _will_log(level)
       IN IF will.err # "none"
          THEN /\ lastOp' = Op("log_data", level, batch, will.err, <<>>)
               /\ UNCHANGED <<_queue, disk, issued>>
          ELSE IF ~will.ret
          THEN /\ lastOp' = Op("log_data", level, batch, "none", <<>>)
               /\ UNCHANGED <<_queue, disk, issued>>
          ELSE write_call("log_data", level, batch,
                          <<"[" \o level \o "][batch=" \o ToString(batch) \o "]: ">>,
                          data_str \o <<"\n">>)
    /\ UNCHANGED <<cfgVars, threads, is_batch_interval, is_epoch_interval, file,
                   _run_name, stdout_write, stderr_write, openHandles, opens,
                   closes>>

\* A direct call of FileLogger.write(prefix, s)
Write(prefix, s) ==
    /\ write_call("write", "-", -1, prefix, s)
    /\ UNCHANGED <<cfgVars, threads, is_batch_interval, is_epoch_interval, file,
                   _run_name, stdout_write, stderr_write, openHandles, opens,
                   closes>>

\* The entry points of a channel through which a write reaches new_write:
\* new_write itself and a wrapper that passes the text on to it.
reaches_new_write == {"new_write", "other+new_write"}

\* sys.stdout.write(s) while the writer of _get_new_writer is installed:
\* new_write calls self.write and then the original writer.
stdout_new_write(s) ==
    /\ stdout_write \in reaches_new_write
    /\ write_call("stdout.write", "-", -1, <<"[stdout]: ">>, s)
    /\ UNCHANGED <<cfgVars, threads, is_batch_interval, is_epoch_interval, file,
                   _run_name, stdout_write, stderr_write, openHandles, opens,
                   closes>>

\* sys.stderr.write(s) while the writer of _get_new_writer is installed.
stderr_new_write(s) ==
    /\ stderr_write \in reaches_new_write
    /\ write_call("stderr.write", "-", -1, <<"[stderr]: ">>, s)
    /\ UNCHANGED <<cfgVars, threads, is_batch_interval, is_epoch_interval, file,
                   _run_name, stdout_write, stderr_write, openHandles, opens,
                   closes>>

\* The entry point after another component has put its wrapper around w.
wrapped(w) == IF w \in reaches_new_write THEN "other+new_write" ELSE "other"

\* Another component replaces sys.stdout.write (channel "stdout") or
\* sys.stderr.write (channel "stderr") by its own wrapper around the writer
\* it finds installed.
other_wraps(channel) ==
    /\ IF channel = "stdout"
       THEN /\ stdout_write \in {"original", "new_write"}
            /\ stdout_write' = wrapped(stdout_write)
            /\ UNCHANGED stderr_write
       ELSE /\ stderr_write \in {"original", "new_write"}
            /\ stderr_write' = wrapped(stderr_write)
            /\ UNCHANGED stdout_write
    /\ lastOp' = Op("other_wraps." \o channel, "-", -1, "none", <<>>)
    /\ UNCHANGED <<cfgVars, threads, is_batch_interval, is_epoch_interval, file,
                   _run_name, _queue, disk, openHandles, issued, opens,
                   closes>>

----
\* The same methods when threads share the logger: every action is one
\* statement of a method, run by one thread, and the threads interleave
\* between statements.  queue.Queue makes get_nowait and put_nowait atomic,
\* and a print to the file is taken as atomic.

\* The text thread t gives to write(): its own number on a line.
text_of(t) == <<ToString(t), "\n">>

\* write() is entered by thread t, which runs the formatting loop.
write_enter(t) ==
    /\ threads[t].pc = "idle"
    /\ threads' = [threads EXCEPT ![t] =
                      [pc |-> "if self.file is None", caller |-> "write",
                       s |-> formatted_s(<<"[a]: ">>, text_of(t)),
                       popped |-> <<>>,
                       before |-> {u \in Writers : threads[u].pc = "returned"}]]
    /\ UNCHANGED <<cfgVars, is_batch_interval, is_epoch_interval, file,
                   _run_name, _queue, stdout_write, stderr_write, disk,
                   openHandles, issued, opens, closes, lastOp>>

\* write(): "if self.file is None"
write_if_file_is_None(t) ==
    /\ threads[t].pc = "if self.file is None"
    /\ threads' = [threads EXCEPT ![t].pc =
                      IF file = None THEN "put_nowait" ELSE "get_nowait"]
    /\ UNCHANGED <<cfgVars, is_batch_interval, is_epoch_interval, file,
                   _run_name, _queue, stdout_write, stderr_write, disk,
                   openHandles, issued, opens, closes, lastOp>>

\* write(): self._queue.put_nowait(formatted_s), and the call returns.
write_put_nowait(t) ==
    /\ threads[t].pc = "put_nowait"
    /\ _queue' = Append(_queue, threads[t].s)
    /\ threads' = [threads EXCEPT ![t].pc = "returned"]
    /\ UNCHANGED <<cfgVars, is_batch_interval, is_epoch_interval, file,
                   _run_name, stdout_write, stderr_write, disk, openHandles,
                   issued, opens, closes, lastOp>>

\* The statement that follows the call of _flush_queue in each caller: the
\* print of write(), the end of init() (there is no config blob when threads
\* share the logger), the flush and publish of _flush_file.
after_flush_queue(caller) ==
    CASE caller = "write" -> "print"
      [] caller = "init" -> "returned"
      [] caller = "_flush_file" -> "file_artifact"

\* _flush_queue(): "s = self._queue.get_nowait()", or the break on Empty.
flush_queue_get_nowait(t) ==
    /\ threads[t].pc = "get_nowait"
    /\ IF _queue = <<>>
       THEN /\ threads' = [threads EXCEPT ![t].pc =
                              after_flush_queue(threads[t].caller)]
            /\ UNCHANGED _queue
       ELSE /\ threads' = [threads EXCEPT ![t].pc = "print popped",
                                          ![t].popped = Head(_queue)]
            /\ _queue' = Tail(_queue)
    /\ UNCHANGED <<cfgVars, is_batch_interval, is_epoch_interval, file,
                   _run_name, stdout_write, stderr_write, disk, openHandles,
                   issued, opens, closes, lastOp>>

\* _flush_queue(): "print(s, file=self.file, flush=False, end='')".  The
\* file is open: no thread closes it.
flush_queue_print(t) ==
    /\ threads[t].pc = "print popped"
    /\ file # None
    /\ disk' = [disk EXCEPT ![file[1]] = @ \o threads[t].popped]
    /\ threads' = [threads EXCEPT ![t].pc = "get_nowait", ![t].popped = <<>>]
    /\ UNCHANGED <<cfgVars, is_batch_interval, is_epoch_interval, file,
                   _run_name, _queue, stdout_write, stderr_write, openHandles,
                   issued, opens, closes, lastOp>>

\* write(): "print(formatted_s, file=self.file, flush=False, end='')", and
\* the call returns.
write_print(t) ==
    /\ threads[t].pc = "print"
    /\ file # None
    /\ disk' = [disk EXCEPT ![file[1]] = @ \o threads[t].s]
    /\ threads' = [threads EXCEPT ![t].pc = "returned"]
    /\ UNCHANGED <<cfgVars, is_batch_interval, is_epoch_interval, file,
                   _run_name, _queue, stdout_write, stderr_write, openHandles,
                   issued, opens, closes, lastOp>>

\* init() is entered by the lifecycle thread: the run name is set and the
\* check that no file is open passes.
init_enter(run_name) ==
    /\ threads[LifecycleThread].pc = "idle"
    /\ file = None
    /\ _run_name' = Some(run_name)
    /\ threads' = [threads EXCEPT ![LifecycleThread].pc = "open",
                                  ![LifecycleThread].caller = "init"]
    /\ UNCHANGED <<cfgVars, is_batch_interval, is_epoch_interval, file,
                   _queue, stdout_write, stderr_write, disk, openHandles,
                   issued, opens, closes, lastOp>>

\* init(): "self.file = open(self.filename, 'x+', ...)", on a new path.
init_open ==
    /\ threads[LifecycleThread].pc = "open"
    /\ LET path == filename(_run_name).val
       IN /\ path \notin DOMAIN disk
          /\ file' = Some(path)
          /\ disk' = open_x(disk, path)
          /\ openHandles' = openHandles \cup {path}
    /\ opens' = opens + 1
    /\ lastOp' = Op("init", "-", -1, "none", <<>>)
    /\ threads' = [threads EXCEPT ![LifecycleThread].pc = "get_nowait"]
    /\ UNCHANGED <<cfgVars, is_batch_interval, is_epoch_interval, _run_name,
                   _queue, stdout_write, stderr_write, issued, closes>>

\* eval_start() is entered by the lifecycle thread once init() has returned:
\* the assertion of _flush_file passes.
flush_file_enter ==
    /\ threads[LifecycleThread].pc = "returned"
    /\ threads[LifecycleThread].caller = "init"
    /\ file # None
    /\ threads' = [threads EXCEPT ![LifecycleThread].pc = "get_nowait",
                                  ![LifecycleThread].caller = "_flush_file"]
    /\ UNCHANGED <<cfgVars, is_batch_interval, is_epoch_interval, file,
                   _run_name, _queue, stdout_write, stderr_write, disk,
                   openHandles, issued, opens, closes, lastOp>>

\* _flush_file(): the flush, the fsync and logger.file_artifact, and
\* eval_start() returns.
flush_file_publish ==
    /\ threads[LifecycleThread].pc = "file_artifact"
    /\ lastOp' = Op("eval_start", "-", -1, "none",
                    <<[artifact |-> artifact_name(_run_name).val,
                       path |-> file[1]]>>)
    /\ threads' = [threads EXCEPT ![LifecycleThread].pc = "returned"]
    /\ UNCHANGED <<cfgVars, is_batch_interval, is_epoch_interval, file,
                   _run_name, _queue, stdout_write, stderr_write, disk,
                   openHandles, issued, opens, closes>>

----
\* The calls the trainer and the program make, with their arguments drawn
\* from the given sets, and at most max_writes calls of write().  counters
\* are the counters the hooks are given, log_batches those log_data is given,
\* publish_fails the outcomes of logger.file_artifact (TRUE: it raises).

CanWrite(max_writes) == Len(issued) < max_writes

Calls(run_names, counters, levels, log_batches, data_strs, prefixes, texts, max_writes, publish_fails) ==
    \/ \E run_name \in run_names :
          /\ config # None => CanWrite(max_writes)
          /\ init(run_name)
    \/ \E batch \in counters : batch_start(batch)
    \/ \E epoch \in counters, publishFails \in publish_fails :
          epoch_start(epoch, publishFails)
    \/ \E batch \in counters, publishFails \in publish_fails :
          batch_end(batch, publishFails)
    \/ \E publishFails \in publish_fails : eval_start(publishFails)
    \/ \E epoch \in counters, publishFails \in publish_fails :
          epoch_end(epoch, publishFails)
    \/ \E level \in levels, batch \in log_batches, data_str \in data_strs :
          /\ _will_log(level).ret => CanWrite(max_writes)
          /\ log_data(level, batch, data_str)
    \/ \E prefix \in prefixes, s \in texts :
          /\ CanWrite(max_writes)
          /\ Write(prefix, s)
    \/ \E s \in texts :
          /\ CanWrite(max_writes)
          /\ stdout_new_write(s)
    \/ \E s \in texts :
          /\ CanWrite(max_writes)
          /\ stderr_new_write(s)
    \/ \E publishFails \in publish_fails : close(publishFails)

Prefixes == {<<"[a]: ">>}

LogDataValues == {<<"m">>}

\* The defaults of FileLogger.__init__ for the arguments a specification
\* does not vary.
DefaultCapture == {<<TRUE, TRUE>>}

----
\* Spec: the file sink.  The logger is built with its default level and
\* intervals, with or without a config blob; texts of several lines are
\* written before init, while the file is open and after close.

\* yaml.safe_dump(self.config) of the config blob of the model.
Configs == {None, Some(<<"k: v", "\n">>)}

Texts == {<<"x", "\n", "\n", "y">>, <<"z", "\n">>}

Init ==
    __init__({default_filename_format}, {None}, {default_log_level},
             {default_log_interval}, {default_flush_interval}, Configs,
             DefaultCapture)

Next ==
    Calls({<<"r">>}, {0}, {"FIT"}, {0}, LogDataValues, Prefixes, Texts,
          MaxWrites, BOOLEAN)

Spec == Init /\ [][Next]_vars

----
\* SpecNames: the runs and their names.  The logger is built with relative
\* and absolute templates, with and without an artifact template, and is
\* initialised, closed and initialised again with run names that do and do
\* not begin with a slash.

FilenameFormats == {default_filename_format, <<"/", "/", "{run_name}", ".txt">>}

ArtifactNameFormats == {None, Some(<<"/", "art-", "{run_name}">>)}

RunNames == {<<"r">>, <<"/", "s">>}

InitNames ==
    __init__(FilenameFormats, ArtifactNameFormats, {default_log_level},
             {default_log_interval}, {default_flush_interval}, {None},
             DefaultCapture)

NextNames ==
    Calls(RunNames, {0}, {"FIT"}, {0}, LogDataValues, Prefixes,
          {<<"x", "\n">>}, FewWrites, BOOLEAN)

SpecNames == InitNames /\ [][NextNames]_vars

----
\* SpecFilter: the level filter.  The logger is built with every level and
\* every log_interval up to MaxInterval; batch_start and epoch_start are
\* called with every counter up to MaxCounter and log_data with every level.

Counters == 0..MaxCounter

Intervals == 1..MaxInterval

InitFilter ==
    __init__({default_filename_format}, {None}, ConfiguredLevels, Intervals,
             {default_flush_interval}, {None}, DefaultCapture)

NextFilter ==
    Calls({<<"r">>}, Counters, CallLevels, {0}, LogDataValues, Prefixes,
          {<<"x", "\n">>}, FewWrites, {FALSE})

SpecFilter == InitFilter /\ [][NextFilter]_vars

----
\* SpecFlush: the flush policy.  The logger is built with every level and
\* every flush_interval up to MaxInterval; the hooks are called with every
\* counter up to MaxCounter.

InitFlush ==
    __init__({default_filename_format}, {None}, ConfiguredLevels,
             {default_log_interval}, Intervals, {None}, DefaultCapture)

NextFlush ==
    Calls({<<"r">>}, Counters, {"FIT"}, {0}, LogDataValues, Prefixes,
          {<<"x", "\n">>}, FewWrites, {FALSE})

SpecFlush == InitFlush /\ [][NextFlush]_vars

----
\* SpecFormat: the formatting of write().  Every text of at most MaxTextLen
\* tokens over a piece of ordinary text and the terminators "\n" and "\r"
\* ("\r" followed by "\n" is the terminator "\r\n") is written, before
\* init(), while the file is open and after close().

FormatAlphabet == {"a", "\n", "\r"}

FormatTexts == UNION {[1..n -> FormatAlphabet] : n \in 0..MaxTextLen}

InitFormat ==
    __init__({default_filename_format}, {None}, {default_log_level},
             {default_log_interval}, {default_flush_interval}, {None},
             DefaultCapture)

NextFormat ==
    \/ init(<<"r">>)
    \/ \E s \in FormatTexts :
          /\ CanWrite(FewWrites)
          /\ Write(<<"[a]: ">>, s)
    \/ close(FALSE)

SpecFormat == InitFormat /\ [][NextFormat]_vars

----
\* SpecCapture: the capture of stdout and stderr.  The logger is built with
\* every choice of capture_stdout and capture_stderr, and another component
\* may wrap either channel at any time after the construction.

Captures == BOOLEAN \X BOOLEAN

Channels == {"stdout", "stderr"}

InitCapture ==
    __init__({default_filename_format}, {None}, {default_log_level},
             {default_log_interval}, {default_flush_interval}, {None},
             Captures)

NextCapture ==
    \/ Calls({<<"r">>}, {0}, {"FIT"}, {0}, LogDataValues, Prefixes,
             {<<"x", "\n">>}, FewWrites, {FALSE})
    \/ \E channel \in Channels : other_wraps(channel)

SpecCapture == InitCapture /\ [][NextCapture]_vars

----
\* SpecThreads: threads sharing the logger.  Each of MaxWriters threads
\* calls write() once with a text of its own, while the lifecycle thread
\* calls init() and then eval_start(); the statements of the calls
\* interleave.

InitThreads ==
    __init__({default_filename_format}, {None}, {default_log_level},
             {default_log_interval}, {default_flush_interval}, {None},
             DefaultCapture)

NextThreads ==
    \/ \E t \in Writers : write_enter(t)
    \/ \E t \in Writers : write_if_file_is_None(t)
    \/ \E t \in Writers : write_put_nowait(t)
    \/ \E t \in Threads : flush_queue_get_nowait(t)
    \/ \E t \in Threads : flush_queue_print(t)
    \/ \E t \in Writers : write_print(t)
    \/ init_enter(<<"r">>)
    \/ init_open
    \/ flush_file_enter
    \/ flush_file_publish

SpecThreads == InitThreads /\ [][NextThreads]_vars

----
\* The claims.

\* The formatted strings of the write() calls made so far, in issue order.
IssuedStrings == [k \in 1..Len(issued) |-> issued[k].s]

\* C1 (Spec): without a config blob, while the file of the first successful
\* init() is open, its content is exactly the concatenation of the formatted
\* strings of all write() calls made so far, those made before init() and
\* those made after it, in issue order: none lost, duplicated or reordered.
C1_Ordering ==
    (config = None /\ opens = 1 /\ file # None)
        => disk[file[1]] = join(IssuedStrings)

\* Two different strings, the first written before init() and queued, the
\* second written to the open file, are in the file in that order.
C1_Witness ==
    /\ config = None /\ opens = 1 /\ file # None
    /\ Len(issued) = 2
    /\ issued[1].queued /\ ~issued[2].queued
    /\ issued[1].s # issued[2].s
    /\ disk[file[1]] = issued[1].s \o issued[2].s

\* The table of the level filter: configured level, call level and the two
\* interval flags give the decision.
will_log_table(configured, level, epoch_flag, batch_flag) ==
    CASE level = "FIT" -> TRUE
      [] level = "EPOCH" /\ configured = "FIT" -> FALSE
      [] level = "EPOCH" /\ configured = "BATCH" -> TRUE
      [] level = "EPOCH" /\ configured = "EPOCH" -> epoch_flag
      [] level = "BATCH" /\ configured \in {"FIT", "EPOCH"} -> FALSE
      [] level = "BATCH" /\ configured = "BATCH" -> batch_flag

C2_Table ==
    \A level \in CallLevels :
        IF level \in ConfiguredLevels
        THEN _will_log(level) =
                 [err |-> "none",
                  ret |-> will_log_table(log_level, level, is_epoch_interval,
                                         is_batch_interval)]
        ELSE _will_log(level).err = "ValueError"

C2_Drop ==
    (/\ lastOp'.op = "log_data"
     /\ \/ lastOp'.level \notin ConfiguredLevels
        \/ ~will_log_table(log_level, lastOp'.level, is_epoch_interval,
                           is_batch_interval))
        => UNCHANGED <<_queue, disk, issued>>

\* C2 (SpecFilter): for every configured level, every call level and every
\* value of the two interval flags _will_log is the table (FIT always; EPOCH
\* never under FIT, always under BATCH, is_epoch_interval under EPOCH; BATCH
\* never under FIT or EPOCH, is_batch_interval under BATCH; any other level
\* raises), and a log_data call whose level the table rejects writes nothing.
C2_WillLog == []C2_Table /\ [][C2_Drop]_vars

\* An EPOCH call under EPOCH with the flag off returned without writing.
C2_Witness ==
    /\ log_level = "EPOCH" /\ ~is_epoch_interval
    /\ lastOp.op = "log_data" /\ lastOp.level = "EPOCH" /\ lastOp.err = "none"
    /\ issued = <<>>

C3_Law ==
    /\ lastOp.op = "epoch_start"
          => is_epoch_interval = ((lastOp.ctr + 1) % log_interval = 0)
    /\ lastOp.op = "batch_start"
          => is_batch_interval = ((lastOp.ctr + 1) % log_interval = 0)
    /\ (log_interval = 2 /\ lastOp.op = "epoch_start" /\ lastOp.ctr \in 0..3)
          => (is_epoch_interval <=> lastOp.ctr \in {1, 3})

C3_Recorded ==
    (log_level = "EPOCH" /\ lastOp'.op = "log_data" /\ lastOp'.level = "EPOCH")
        => ((issued' # issued) <=> is_epoch_interval)

C3_Kept ==
    /\ is_epoch_interval' # is_epoch_interval => lastOp'.op = "epoch_start"
    /\ is_batch_interval' # is_batch_interval => lastOp'.op = "batch_start"

\* C3 (SpecFilter): after every epoch_start with counter c the flag
\* is_epoch_interval is (c + 1) mod log_interval = 0, and likewise
\* is_batch_interval after batch_start; with log_interval = 2 the counters
\* 0, 1, 2, 3 give false, true, false, true; each flag keeps its value until
\* the next start event, and under log_level EPOCH an EPOCH-level log_data
\* call is recorded exactly when the flag is on, so only after the epoch_start
\* calls with counters 1 and 3.
C3_IntervalFlags == []C3_Law /\ [][C3_Recorded /\ C3_Kept]_vars

\* With log_interval = 2 under EPOCH, an EPOCH-level call was recorded while
\* the flag was on.
C3_Witness ==
    /\ log_interval = 2 /\ log_level = "EPOCH" /\ is_epoch_interval
    /\ lastOp.op = "log_data" /\ lastOp.level = "EPOCH"
    /\ Len(issued) = 1

C4_OneHandle ==
    /\ Cardinality(openHandles) <= 1
    /\ file # None => openHandles = {file[1]}

C4_Step ==
    (file # None /\ lastOp'.op = "init")
        => /\ lastOp'.err = "RuntimeError"
           /\ file' = file
           /\ disk' = disk
           /\ openHandles' = openHandles

\* C4 (SpecNames): init() on a sink that holds an open file raises, opens and
\* creates no file and leaves the handle bound and open; the sink never has
\* more than one open handle.
C4_DoubleInit == []C4_OneHandle /\ [][C4_Step]_vars

\* A second init() has failed and the first handle is still bound and open.
C4_Witness ==
    /\ lastOp.op = "init" /\ lastOp.err = "RuntimeError"
    /\ file # None /\ openHandles = {file[1]}
    /\ opens = 1

C5_Step ==
    (file = None /\ lastOp'.op = "close")
        => /\ lastOp'.err = "none"
           /\ lastOp'.pubs = <<>>
           /\ UNCHANGED <<file, _run_name, _queue, is_batch_interval,
                          is_epoch_interval, disk, openHandles, stdout_write,
                          stderr_write, issued, opens, closes>>

\* C5 (SpecNames): close() on a sink with no open file, never initialised or
\* already closed, raises nothing, notifies no publisher and changes nothing.
C5_CloseNoOp == [][C5_Step]_vars

\* A close() after the close() that closed the file returned without a
\* publish.
C5_Witness ==
    /\ lastOp.op = "close" /\ lastOp.err = "none" /\ lastOp.pubs = <<>>
    /\ closes = 1 /\ file = None

\* C6 (SpecNames), as claimed: once close() has closed the file, no later
\* init() of the same logger succeeds.
C6_ClosedIsTerminal ==
    (closes >= 1 /\ lastOp.op = "init") => lastOp.err # "none"

\* C7 (Spec), as claimed: once init() has succeeded the pending queue is
\* empty after every operation, also after close().
C7_BufferStaysEmpty == opens >= 1 => _queue = <<>>

\* C7 (Spec), amended: while a file is open the pending queue is empty after
\* every operation.
C7_BufferEmptyWhileOpen == file # None => _queue = <<>>

\* init() has drained a queued write into the file and the queue is empty.
C7_Witness ==
    /\ file # None /\ _queue = <<>>
    /\ Len(issued) >= 1 /\ issued[1].queued
    /\ disk[file[1]] # <<>>

\* The calls that reach self._flush_file(logger).
FlushTriggering(o) ==
    \/ o.op \in {"epoch_start", "eval_start"}
    \/ o.op = "epoch_end" /\ epoch_end_flushes(o.ctr)
    \/ o.op = "batch_end" /\ batch_end_flushes(o.ctr)

C8_Step ==
    (file = None /\ FlushTriggering(lastOp'))
        => /\ lastOp'.err # "none"
           /\ lastOp'.pubs = <<>>
           /\ _queue' = _queue

\* C8 (SpecFlush): a hook that reaches the flush/publish cycle while no file
\* is open raises, notifies no publisher and leaves the pending queue as it
\* was.
C8_FlushNotOpen == [][C8_Step]_vars

\* epoch_start before init() raised and the queued write is still queued.
C8_Witness ==
    /\ file = None /\ opens = 0
    /\ lastOp.op = "epoch_start" /\ lastOp.err = "AssertionError"
    /\ _queue # <<>>

\* The number of publisher notifications the claim gives for a call.
expected_publishes(o) ==
    CASE o.op \in {"epoch_start", "eval_start", "close"} -> 1
      [] o.op = "epoch_end" ->
            IF \/ log_level = "BATCH"
               \/ log_level = "EPOCH" /\ o.ctr % flush_interval = 0
            THEN 1 ELSE 0
      [] o.op = "batch_end" ->
            IF log_level = "BATCH" /\ o.ctr % flush_interval = 0 THEN 1 ELSE 0
      [] OTHER -> 0

C9_Step == file # None => Len(lastOp'.pubs) = expected_publishes(lastOp')

\* C9 (SpecFlush): on an open sink the publisher is notified once by each
\* epoch_start, eval_start and close; by epoch_end exactly when log_level is
\* BATCH, or is EPOCH and the epoch counter mod flush_interval is 0; by
\* batch_end exactly when log_level is BATCH and the batch counter mod
\* flush_interval is 0; and by no other call.
C9_PublishPolicy == [][C9_Step]_vars

\* Under EPOCH with flush_interval 2, epoch_end at counter 2 published once.
C9_Witness ==
    /\ file # None /\ log_level = "EPOCH" /\ flush_interval = 2
    /\ lastOp.op = "epoch_end" /\ lastOp.ctr = 2
    /\ Len(lastOp.pubs) = 1

\* C10 (SpecNames), as claimed: no artifact name passed to the publisher
\* begins with "/".
C10_NoLeadingSlash ==
    \A k \in 1..Len(lastOp.pubs) :
        lastOp.pubs[k].artifact = lstrip(lastOp.pubs[k].artifact, "/")

\* C11 (SpecNames), as claimed: when an artifact_name_format was given that
\* differs from the filename template, the artifact name of every publish
\* made while the file is open is the resolution of artifact_name_format with
\* the run name (leading slashes aside).
C11_ArtifactFormatUsed ==
    (file # None /\ _run_name # None /\ artifact_name_format # filename_format) =>
        \A k \in 1..Len(lastOp.pubs) :
            lstrip(lastOp.pubs[k].artifact, "/") =
                lstrip(str_format(artifact_name_format, _run_name[1]), "/")

\* The line terminators of the claim.
LineTerminators == {<<"\n">>, <<"\r">>, <<"\r", "\n">>}

\* format(prefix, text) as the claim gives it: the segments that are only a
\* line terminator unprefixed, every other segment behind the prefix.
claimed_format(prefix, text) ==
    LET segments == splitlines(text)
    IN join([k \in 1..Len(segments) |->
                IF segments[k] \in LineTerminators
                THEN segments[k] ELSE prefix \o segments[k]])

\* C12 (SpecFormat), as claimed: the string every write() call formats from
\* its prefix and text has each terminator-only segment unprefixed and every
\* other segment prefixed, in the original order.
C12_FormatRule ==
    \A k \in 1..Len(issued) :
        issued[k].s = claimed_format(issued[k].prefix, issued[k].text)

C13_Step ==
    lastOp'.op = "close" =>
        /\ ~capture_stdout => stdout_write' = stdout_write
        /\ ~capture_stderr => stderr_write' = stderr_write

\* C13 (SpecCapture), as claimed: close() of a logger built with
\* capture_stdout=False leaves sys.stdout.write as it finds it, and likewise
\* for stderr, also when another component has installed its own wrapper
\* since the construction.
C13_CloseKeepsUncaptured == [][C13_Step]_vars

\* C14 (SpecCapture), as claimed: once close() has returned, in whatever
\* lifecycle state it was called, each channel the logger was built to
\* capture has its original write entry point again.
C14_CloseRestores ==
    (lastOp.op = "close" /\ lastOp.err = "none") =>
        /\ capture_stdout => stdout_write = "original"
        /\ capture_stderr => stderr_write = "original"

\* The config block as init() formats it.
config_block == formatted_s(<<"[config]: ">>, config_data)

\* C15 (Spec), as claimed: with a config blob, the file begins with the
\* config block, whatever was written before init().
C15_ConfigFirst ==
    (config # None /\ file # None) =>
        /\ Len(disk[file[1]]) >= Len(config_block)
        /\ SubSeq(disk[file[1]], 1, Len(config_block)) = config_block

\* C15 (Spec), amended: with a config blob, the file holds the writes
\* buffered before init() in the order they were issued, then the config
\* block, then the writes made since; the block is the first content only
\* when nothing was buffered before init().
C15_ConfigAfterBuffered ==
    (config # None /\ file # None) =>
        \E c \in 1..Len(issued) :
            /\ issued[c].prefix = <<"[config]: ">>
            /\ issued[c].text = config_data
            /\ \A k \in 1..(c - 1) : issued[k].queued
            /\ \A k \in (c + 1)..Len(issued) : ~issued[k].queued
            /\ disk[file[1]] =
                   join([k \in 1..(c - 1) |-> issued[k].s]) \o config_block
                      \o join([k \in 1..(Len(issued) - c) |-> issued[c + k].s])

\* A write was buffered before init(); the file holds it and then the
\* config block.
C15_Witness ==
    /\ config # None /\ file # None
    /\ Len(issued) = 2 /\ issued[1].queued /\ issued[1].s # <<>>
    /\ disk[file[1]] = issued[1].s \o config_block

\* Whether reading self.filename and self.artifact_name raises in this state.
names_fail ==
    /\ filename(_run_name).err = "RuntimeError"
    /\ artifact_name(_run_name).err = "RuntimeError"

\* Whether both properties return a name, made with the run name that is set.
names_resolve ==
    /\ filename(_run_name).err = "none"
    /\ artifact_name(_run_name).err = "none"
    /\ _run_name # None
    /\ filename(_run_name).val = str_format(filename_format, _run_name[1])

\* C16 (SpecNames), as claimed: filename and artifact_name raise after the
\* construction and after every close() that has returned, and whenever no
\* run name is set; while a file is open both resolve.
C16_UnresolvedFails ==
    /\ lastOp.op = "__init__" => names_fail
    /\ (lastOp.op = "close" /\ lastOp.err = "none") => names_fail
    /\ _run_name = None => names_fail
    /\ file # None => names_resolve

\* The places in the open file of the text thread t gave to write().
places(t) ==
    IF file = None THEN {}
    ELSE {i \in 1..Len(disk[file[1]]) : disk[file[1]][i] = ToString(t)}

\* C17 (SpecThreads), as claimed: when the write() call of one thread had
\* returned before the call of another began and the file holds the text of
\* both, the text of the first comes before the text of the second.
C17_ReturnOrder ==
    \A t \in Writers, u \in Writers :
        t \in threads[u].before =>
            \A i \in places(t), j \in places(u) : i < j

C18_Step ==
    (file # None /\ lastOp'.op = "close") =>
        /\ file' = None
        /\ _run_name' = None
        /\ file[1] \notin openHandles'

\* C18 (SpecNames), as claimed: close() on an open sink ends with the handle
\* closed, no file held and the run name cleared, whether logger.file_artifact
\* returns or raises during the final flush.
C18_CloseAlwaysCloses == [][C18_Step]_vars

\* C19 (SpecNames), as claimed: while a file is open, also after a second
\* init() has failed, the filename property is the path the handle was opened
\* with, and every publish pairs that path with the artifact name resolved
\* from the run name the path was resolved from.
C19_RunIdentityBound ==
    file # None =>
        /\ filename(_run_name).err = "none"
        /\ filename(_run_name).val = file[1]
        /\ \A k \in 1..Len(lastOp.pubs) :
              /\ lastOp.pubs[k].path = file[1]
              /\ \E run_name \in RunNames :
                    /\ filename(Some(run_name)).val = file[1]
                    /\ artifact_name(Some(run_name)).val = lastOp.pubs[k].artifact

C20_Start == ~is_epoch_interval /\ ~is_batch_interval

C20_OnlyStartEvents ==
    /\ lastOp'.op # "epoch_start" => is_epoch_interval' = is_epoch_interval
    /\ lastOp'.op # "batch_start" => is_batch_interval' = is_batch_interval

C20_Dropped ==
    /\ (/\ log_level = "EPOCH" /\ ~is_epoch_interval
        /\ lastOp'.op = "log_data" /\ lastOp'.level = "EPOCH")
          => (lastOp'.err = "none" /\ UNCHANGED <<_queue, disk, issued>>)
    /\ (/\ log_level = "BATCH" /\ ~is_batch_interval
        /\ lastOp'.op = "log_data" /\ lastOp'.level = "BATCH")
          => (lastOp'.err = "none" /\ UNCHANGED <<_queue, disk, issued>>)

\* C20 (SpecFilter): both interval flags are off after the construction and
\* no call but epoch_start changes is_epoch_interval, none but batch_start
\* is_batch_interval; so, for every log_interval, 1 included, a flag is off
\* until its first start event, and while it is off every EPOCH-level
\* log_data call under log_level EPOCH, and every BATCH-level call under
\* BATCH, writes nothing.
C20_FlagsOffUntilStart == C20_Start /\ [][C20_OnlyStartEvents /\ C20_Dropped]_vars

\* With log_interval = 1 under EPOCH, an EPOCH-level call made after a
\* batch_start wrote nothing: the flag is off, so no epoch_start was called.
C20_Witness ==
    /\ log_interval = 1 /\ log_level = "EPOCH"
    /\ is_batch_interval /\ ~is_epoch_interval
    /\ lastOp.op = "log_data" /\ lastOp.level = "EPOCH" /\ lastOp.err = "none"
    /\ issued = <<>> /\ _queue = <<>>

====
